---- MODULE Spec2Model ----
(***************************************************************************)
(* Model of src/backend/main.py: the WebRTC signaling handler              *)
(* (connection_handler), the data-channel wiring (handle_new_connection)   *)
(* and the periodic frame broadcaster (periodic_frames, channel_broadcast).*)
(*                                                                         *)
(* Threads.  start() runs send_frames on its own thread (line 198); the    *)
(* aiohttp/aiortc event loop (offers, data-channel events, closing         *)
(* callbacks, add_channel) runs on the main thread.  The two threads share *)
(* the cells `channels` and `to_be_removed`.  Each simple statement of one *)
(* thread is one step: the interpreter lock makes a statement such as      *)
(* `to_be_removed.add(channel)` or the tuple assignment of line 179        *)
(* indivisible, and lets the other thread run between statements.          *)
(* Callbacks of the main thread are synchronous sections of one event loop *)
(* and never interleave with each other.                                   *)
(***************************************************************************)
EXTENDS Integers, FiniteSets, Sequences, TLC

\* ---------------------------------------------------------------- bounds
MaxChan == 2
MaxTicks == 1
MaxConn == 2
MaxReq == 2
MaxMsg == 2

\* ------------------------------------------------------ program constants
frame_n_bytes == 2
n_of_unique_frames == (2 ^ 8) ^ frame_n_bytes

Chan == 1 .. MaxChan
Labels == {"webscope_data", "echo", "other"}
\* The loop variable before line 186 binds it: a value outside Chan.
NoChan == MaxChan + 1

\* The last clock value before the index wraps (reached by idle ticks).
WrapStart == n_of_unique_frames - 1

\* The clock alone is run for two rounds of its indices.
ClockTicks == n_of_unique_frames + n_of_unique_frames

VARIABLES
    \* ---- channel_broadcast closure cells and send_frames locals
    channels,       \* set[RTCDataChannel]: the active set (line 159)
    to_be_removed,  \* set[RTCDataChannel]: pending removals (line 160)
    removing,       \* local of send_frames (line 179)
    frame_n,        \* local of periodic_frames (line 128)
    frame,          \* local of send_frames (line 183)
    iter,           \* the set iterator of line 186: [used, seen]
    channel,        \* loop variable of line 186
    pc,             \* position of the broadcast thread
    \* ---- the transport's data channels (external collaborator)
    readyState,     \* per channel: unopened, open, emitting, closing, closed
    label,          \* per channel: its label, "none" before it opens
    wired,          \* channels whose on_datachannel handler has run
    observers,      \* per channel: the event names the program listens for
    \* ---- history (observations only, never read by the program)
    ticks,          \* number of clock ticks completed
    firedNow,       \* closing callbacks run during the current cycle
    firedOld,       \* closing callbacks run during earlier cycles
    softNow,        \* channels pruned by a soft error in the current cycle
    softOld,        \* channels pruned by a soft error in earlier cycles
    addedMid,       \* channels added after this cycle's drain, before its end
    lastIdx,        \* per channel: index of the frame delivered to it in
                    \* this cycle or else the previous one, -1 if neither
    streak,         \* channels delivered to in this cycle and the previous one
    genCalls,       \* gen_frame calls in the current cycle
    sawChannels,    \* "yes"/"no": what line 181 found this cycle, "" before it
    tried,          \* channels line 190 has called send on in this loop
    failed          \* channels whose send raised in this loop

VARIABLES
    \* ---- connection_handler closure and the transport's peer connections
    connections,     \* dict[uuid.UUID, RTCPeerConnection] (line 53)
    issued,          \* the UUIDs uuid4() has returned so far
    created,         \* number of RTCPeerConnection objects constructed
    connectionState, \* per connection: none, new, connected, failed, closed
    negotiation,     \* per connection: none, remote (offer applied), local
    closeCalls,      \* per connection: number of close() calls
    tasks,           \* per connection: scheduled on_constate runs
    closers,         \* per connection: on_constate runs awaiting close()
    handlerErrors,   \* on_constate runs that ended in an exception
    reqs,            \* per request: the offer coroutine's locals and position
    lastResp,        \* history: the response sent last
    shutdown,        \* on_shutdown: idle, gathering, done
    everKeys         \* history: every UUID that has been a key of connections

VARIABLES
    \* ---- the echo responder of handle_new_connection
    msgTasks,        \* scheduled runs of the async observer message, in order
    received,        \* history, per channel: the messages the transport got
    echoed,          \* history, per channel: the messages message() sent
    echoErrors       \* runs of message() that ended in an exception

evars == <<msgTasks, received, echoed, echoErrors>>

svars == <<connections, issued, created, connectionState, negotiation,
           closeCalls, tasks, closers, handlerErrors, reqs, lastResp,
           shutdown, everKeys>>

bvars == <<channels, to_be_removed, removing, frame_n, frame, iter, channel, pc,
           readyState, label, wired, observers, ticks, firedNow, firedOld, softNow,
           softOld, addedMid, lastIdx, streak, genCalls, sawChannels,
           tried, failed>>

vars == <<bvars, svars, evars>>

\* ------------------------------------------------------------ pure helpers

\* The clock counting on without wrapping.
next_frame_n_NoWrap(n) == n + 1

\* The clock skipping an index.
next_frame_n_Skip(n) == (n + 2) % n_of_unique_frames

\* line 123-124
next_frame_n(n) == (n + 1) % n_of_unique_frames

\* lines 203-217: the 2-byte unsigned index prefix (astype("H")) and the
\* amplitude envelope (frame_n / 64) % 1 + 0.5, kept as its numerator over 64.
gen_frame(n) == [index |-> n % (256 ^ frame_n_bytes), envelope |-> n % 64]

NoFrame == [index |-> -1, envelope |-> -1]

\* The clock standing still over a cycle that generated no frame.
AfterYield_OnlyIfSent(n, generated) == IF generated THEN next_frame_n(n) ELSE n

\* lines 130-132: once the consumer asks for the next item the generator
\* resumes after its yield and advances frame_n, whether the consumer's body
\* generated a frame or hit the continue of line 182
AfterYield(n, generated) == next_frame_n(n)

\* The swap taking the fresh set on both sides: the requests are dropped.
SwapPending_Drop(tbr) == [to_be_removed |-> {}, removing |-> {}]

\* line 179: to_be_removed, removing = set(), to_be_removed
SwapPending(tbr) == [to_be_removed |-> {}, removing |-> tbr]

\* The difference skipped for a single pending removal.
Difference_Late(chs, rem) == IF Cardinality(rem) <= 1 THEN chs ELSE chs \ rem

\* The difference not applied.
Difference_None(chs, rem) == chs

\* line 180: channels - removing
Difference(chs, rem) == chs \ rem

\* The emptiness test off by one: an empty set is not skipped.
SkipCycle_Never(chs) == Cardinality(chs) < 0

\* line 181: len(channels) <= 0
SkipCycle(chs) == Cardinality(chs) <= 0

\* The readyState attribute as the program reads it: while the transport is
\* still emitting "closing" the attribute already reads "closing".
ReadyStateOf(c) == IF readyState[c] = "emitting" THEN "closing" ELSE readyState[c]

\* RTCDataChannel.send: raises InvalidStateError unless the channel is open;
\* an open channel either takes the frame or the transport raises.
SendOutcomes(st) == IF st # "open" THEN {"InvalidStateError"}
                    ELSE {"ok", "InvalidStateError"}

\* Every channel whose send raised is pruned, open or not.
PruneOnError_Always(st) == TRUE

\* line 193: channel.readyState != "open"
PruneOnError(st) == st # "open"

\* line 187: channel in to_be_removed
AlreadyPending(c, tbr) == c \in tbr

\* The set iterator's check at every next(): the set changed size.
SetChanged(it, chs) == it.used # Cardinality(chs)

\* Every channel treated as a broadcast subscriber, whatever its label.
Dispatch_AddAll(lbl) == "add"

\* lines 103-107: the match on channel.label; a label matching no case falls
\* through the statement
Dispatch(lbl) == IF lbl = "webscope_data" THEN "add"
                 ELSE IF lbl = "echo" THEN "echo"
                 ELSE "ignore"

\* The main thread runs one callback at a time: while the transport is inside
\* _setReadyState, between setting the attribute and emitting the event, no
\* other main-thread callback runs.
MainIdle == \A c \in Chan : readyState[c] # "emitting"

\* Channels with the two observers of add_channel installed.
Registered == {c \in wired : label[c] = "webscope_data"}

TickBase == IF ticks >= WrapStart THEN WrapStart ELSE 0

MidCycle == pc \in {"check", "gen", "iter", "for", "member", "send", "except"}

\* --------------------------------------------------- signaling: helpers

Uuid == 1 .. MaxConn
Conn == 1 .. MaxConn
Req == 1 .. MaxReq

\* The id field of a request body.  A string that uuid.UUID accepts is the
\* canonical form str() produces or another spelling of the same UUID (upper
\* case, braces, urn:uuid: prefix); any other string is garbage.
NullId == [form |-> "null", uuid |-> 0]
IdStrings == [form : {"canon", "other"}, uuid : Uuid]
                \cup {[form |-> "garbage", uuid |-> 0]}
IdFields == {NullId, [form |-> "number", uuid |-> 0]} \cup IdStrings

\* The request bodies: text that is not JSON, JSON objects that lack sdp or
\* type or carry an id that is no string, and the objects with a string sdp,
\* a string type and any id field.
Bodies ==
    {[json |-> FALSE, sdp |-> "missing", type |-> "missing", id |-> NullId],
     [json |-> TRUE, sdp |-> "missing", type |-> "offer", id |-> NullId],
     [json |-> TRUE, sdp |-> "str", type |-> "missing", id |-> NullId],
     [json |-> TRUE, sdp |-> "number", type |-> "offer", id |-> NullId]}
    \cup [json : {TRUE}, sdp : {"str"}, type : {"offer", "bogus"}, id : IdFields]

\* line 56: request.json() and dacite.from_dict(ConnectionInfo, ...) succeed
ParseOk(b) ==
    /\ b.json
    /\ b.sdp = "str"
    /\ b.type \in {"offer", "bogus"}
    /\ b.id.form # "number"

\* line 58: uuid.UUID(conn_req.id); 0 stands for ValueError
ParseUUID(s) == IF s.form \in {"canon", "other"} THEN s.uuid ELSE 0

\* lines 45, 85: str(id)
IdStr(u) == [form |-> "canon", uuid |-> u]

\* An id taken from the size of the registry: reused after an eviction.
uuid4_Reuse(iss, conns) == Cardinality(DOMAIN conns) + 1

\* line 62: uuid.uuid4(), a UUID not returned before
uuid4(iss, conns) == CHOOSE u \in Uuid \ iss : \A v \in Uuid \ iss : u <= v

\* line 41: RTCSessionDescription(sdp, type) raises ValueError for a type
\* other than offer, pranswer, answer, rollback
DescriptionOk(type) == type = "offer"

NoEntry(err, conns, n, iss) ==
    [err |-> err, id |-> 0, conn |-> 0, new |-> FALSE,
     connections |-> conns, created |-> n, issued |-> iss]

Found(b, conns, n, iss) ==
    [err |-> IF DescriptionOk(b.type) THEN "" ELSE "ValueError",
     id |-> ParseUUID(b.id), conn |-> conns[ParseUUID(b.id)], new |-> FALSE,
     connections |-> conns, created |-> n, issued |-> iss]

NewEntry(b, conns, n, iss) ==
    LET u == uuid4(iss, conns)
        o == n + 1
    IN  [err |-> IF DescriptionOk(b.type) THEN "" ELSE "ValueError",
         id |-> u, conn |-> o, new |-> TRUE,
         connections |-> [k \in DOMAIN conns \cup {u} |->
                             IF k = u THEN o ELSE conns[k]],
         created |-> o, issued |-> iss \cup {u}]

\* An unknown id answered by creating the session (get-or-create).
OfferEntry_Upsert(b, conns, n, iss) ==
    IF ~ParseOk(b) THEN NoEntry("InvalidPayload", conns, n, iss)
    ELSE IF b.id.form # "null" /\ ParseUUID(b.id) = 0
      THEN NoEntry("ValueError", conns, n, iss)
    ELSE IF b.id.form # "null" /\ ParseUUID(b.id) \in DOMAIN conns
      THEN Found(b, conns, n, iss)
    ELSE IF n < MaxConn THEN [NewEntry(b, conns, n, iss) EXCEPT !.err = "KeyError"]
    ELSE NoEntry("KeyError", conns, n, iss)

\* The session registered before the body is validated.
OfferEntry_CreateFirst(b, conns, n, iss) ==
    IF ~ParseOk(b)
      THEN IF n < MaxConn
             THEN [NewEntry(b, conns, n, iss) EXCEPT !.err = "InvalidPayload"]
             ELSE NoEntry("InvalidPayload", conns, n, iss)
    ELSE IF b.id.form # "null"
      THEN IF ParseUUID(b.id) = 0 THEN NoEntry("ValueError", conns, n, iss)
           ELSE IF ParseUUID(b.id) \notin DOMAIN conns
             THEN NoEntry("KeyError", conns, n, iss)
           ELSE Found(b, conns, n, iss)
    ELSE NewEntry(b, conns, n, iss)

\* lines 56-77: the outcome of parsing the body (56), of finding (58-59) or
\* creating and registering (62-64) the session and of building the offer
\* description (77, as_offer), as a function of the body and of the closure's
\* state.  No await of these lines suspends: new_connection (75) only
\* installs an observer.  An err other than "" is the exception raised.
OfferEntry(b, conns, n, iss) ==
    IF ~ParseOk(b) THEN NoEntry("InvalidPayload", conns, n, iss)
    ELSE IF b.id.form # "null"
      THEN IF ParseUUID(b.id) = 0 THEN NoEntry("ValueError", conns, n, iss)
           ELSE IF ParseUUID(b.id) \notin DOMAIN conns
             THEN NoEntry("KeyError", conns, n, iss)
           ELSE Found(b, conns, n, iss)
    ELSE NewEntry(b, conns, n, iss)

\* The registry after a failed negotiation, with the session it created
\* taken out again.
FailedOffer_Rollback(conns, q) ==
    IF q.given = NullId /\ q.id \in DOMAIN conns
      THEN [j \in DOMAIN conns \ {q.id} |-> conns[j]]
      ELSE conns

\* lines 77-80: no try/except around the three awaits; the exception leaves
\* offer with the registry as it is
FailedOffer(conns, q) == conns

\* A request slot before its request arrives, and after its response.
IdleReq == [pc |-> "idle", parsed |-> FALSE, given |-> NullId, id |-> 0, conn |-> 0]
DoneReq == [pc |-> "done", parsed |-> FALSE, given |-> NullId, id |-> 0, conn |-> 0]

NoResp == [err |-> "none", resp |-> NullId, parsed |-> FALSE, given |-> NullId,
           id |-> 0]

\* dict.pop(id) / del: the registry without key k
Without(conns, k) == [j \in DOMAIN conns \ {k} |-> conns[j]]

InitSignaling ==
    /\ connections = <<>>
    /\ issued = {}
    /\ created = 0
    /\ connectionState = [o \in Conn |-> "none"]
    /\ negotiation = [o \in Conn |-> "none"]
    /\ closeCalls = [o \in Conn |-> 0]
    /\ tasks = [o \in Conn |-> 0]
    /\ closers = [o \in Conn |-> 0]
    /\ handlerErrors = 0
    /\ reqs = [r \in Req |-> IdleReq]
    /\ lastResp = NoResp
    /\ shutdown = "idle"
    /\ everKeys = {}

\* ------------------------------------------------------ echo: helpers

\* A message on the wire: text or binary, possibly empty.
Messages == [kind : {"text", "binary"}, body : {"", "a"}]

\* The value the transport hands to a "message" observer: str for a text
\* message, bytes for a binary one (line 110, data: str | bytes).
Value(m) == [type |-> IF m.kind = "text" THEN "str" ELSE "bytes", body |-> m.body]

\* line 112, channel.send(data): a str goes out as a text message, bytes as a
\* binary one.
Wire(data) == [kind |-> IF data.type = "str" THEN "text" ELSE "binary",
               body |-> data.body]

RECURSIVE SumLen(_, _)
SumLen(f, S) == IF S = {} THEN 0
                ELSE LET c == CHOOSE x \in S : TRUE
                     IN  Len(f[c]) + SumLen(f, S \ {c})

\* ------------------------------------------------------------------ Init
InitAt(n) ==
    /\ channels = {}
    /\ to_be_removed = {}
    /\ removing = {}
    /\ frame_n = n
    /\ frame = NoFrame
    /\ iter = [used |-> 0, seen |-> {}]
    /\ channel = NoChan
    /\ pc = "swap"
    /\ readyState = [c \in Chan |-> "unopened"]
    /\ label = [c \in Chan |-> "none"]
    /\ wired = {}
    /\ observers = [c \in Chan |-> {}]
    /\ msgTasks = <<>>
    /\ received = [c \in Chan |-> <<>>]
    /\ echoed = [c \in Chan |-> <<>>]
    /\ echoErrors = 0
    /\ ticks = n
    /\ firedNow = {}
    /\ firedOld = {}
    /\ softNow = {}
    /\ softOld = {}
    /\ addedMid = {}
    /\ lastIdx = [c \in Chan |-> -1]
    /\ streak = {}
    /\ genCalls = 0
    /\ sawChannels = ""
    /\ tried = {}
    /\ failed = {}
    /\ InitSignaling

Init == InitAt(0)

\* The state after WrapStart idle ticks: no channel was ever opened, every
\* cycle was skipped at line 181-182, and the clock has counted to WrapStart.
InitWrap == InitAt(WrapStart)

\* Messages received so far, on all channels.
Received == SumLen(received, Chan)

cyc == <<lastIdx, streak, genCalls, sawChannels>>
att == <<tried, failed>>
hist == <<ticks, firedNow, firedOld, softNow, softOld, addedMid, cyc, att>>
chanvars == <<readyState, label, wired, observers>>
loopvars == <<removing, frame_n, frame, iter, channel, pc>>
loopvars_but_clock == <<removing, frame, iter, channel, pc>>

\* ------------------------------------------------- main thread: channels

\* The transport opens an inbound data channel and emits "datachannel"; the
\* async handler on_datachannel is scheduled, not yet run.
ChannelOpened(c, lbl) ==
    /\ MainIdle
    /\ readyState[c] = "unopened"
    /\ \A d \in Chan : d < c => readyState[d] # "unopened"
    /\ readyState' = [readyState EXCEPT ![c] = "open"]
    /\ label' = [label EXCEPT ![c] = lbl]
    /\ UNCHANGED <<svars, evars, channels, to_be_removed, wired, observers,
                   loopvars, hist>>

\* lines 162-171, called from line 106
add_channel(c) ==
    /\ observers' = [observers EXCEPT ![c] = @ \cup {"closing", "closedkfjsdk"}]
    /\ channels' = channels \cup {c}
    /\ addedMid' = IF MidCycle THEN addedMid \cup {c} ELSE addedMid

\* lines 100-112
on_datachannel(c) ==
    /\ MainIdle
    /\ label[c] # "none"
    /\ c \notin wired
    /\ \A d \in Chan : d < c => d \in wired
    /\ wired' = wired \cup {c}
    /\ IF Dispatch(label[c]) = "add"
         THEN add_channel(c)
         ELSE /\ observers' = [observers EXCEPT ![c] =
                                 IF Dispatch(label[c]) = "echo"
                                   THEN @ \cup {"message"} ELSE @]
              /\ UNCHANGED <<channels, addedMid>>
    /\ UNCHANGED <<svars, evars, to_be_removed, readyState, label, loopvars,
                   ticks, firedNow, firedOld, softNow, softOld, cyc, att>>

\* The transport starts closing a channel: the attribute changes, the
\* "closing" event is emitted next.
SetClosing(c) ==
    /\ MainIdle
    /\ readyState[c] = "open"
    /\ readyState' = [readyState EXCEPT ![c] = "emitting"]
    /\ UNCHANGED <<svars, evars, channels, to_be_removed, label, wired, observers,
                   loopvars, hist>>

\* lines 163-165: the "closing" observer, if add_channel installed it
closing(c) ==
    /\ readyState[c] = "emitting"
    /\ readyState' = [readyState EXCEPT ![c] = "closing"]
    /\ IF "closing" \in observers[c]
         THEN /\ to_be_removed' = to_be_removed \cup {c}
              /\ firedNow' = firedNow \cup {c}
         ELSE UNCHANGED <<to_be_removed, firedNow>>
    /\ UNCHANGED <<svars, evars, channels, label, wired, observers, loopvars,
                   ticks, firedOld, softNow, softOld, addedMid, cyc, att>>

\* The transport closes an open channel without a "closing" notification (its
\* connection went down); it emits "close".  The observer of lines 167-169
\* listens for "closedkfjsdk", which nothing emits, so no callback of the
\* program runs.  (A closing channel also ends up closed; the program compares
\* readyState with "open" only and observes nothing of that step, which is
\* left out.)
SetClosed(c) ==
    /\ MainIdle
    /\ readyState[c] = "open"
    /\ readyState' = [readyState EXCEPT ![c] = "closed"]
    /\ to_be_removed' = IF "close" \in observers[c]
                          THEN to_be_removed \cup {c} ELSE to_be_removed
    /\ UNCHANGED <<svars, evars, channels, label, wired, observers, loopvars,
                   hist>>

\* ------------------------------------------------ main thread: echo

\* The transport receives a message on an open channel and emits "message":
\* a run of the async observer of lines 109-112 is scheduled if the observer
\* is installed; with no observer the message is dropped.
message_received(c, m) ==
    /\ MainIdle
    /\ readyState[c] = "open"
    /\ Received < MaxMsg
    /\ received' = [received EXCEPT ![c] = Append(@, m)]
    /\ msgTasks' = IF "message" \in observers[c]
                     THEN Append(msgTasks, [chan |-> c, data |-> Value(m)])
                     ELSE msgTasks
    /\ UNCHANGED <<bvars, svars, echoed, echoErrors>>

\* lines 110-112: channel.send(data) in the scheduled run of message
message ==
    /\ MainIdle
    /\ msgTasks # <<>>
    /\ msgTasks' = Tail(msgTasks)
    /\ LET c == Head(msgTasks).chan
           data == Head(msgTasks).data
       IN  \E outcome \in SendOutcomes(ReadyStateOf(c)) :
              IF outcome = "ok"
                THEN /\ echoed' = [echoed EXCEPT ![c] = Append(@, Wire(data))]
                     /\ UNCHANGED echoErrors
                ELSE /\ echoErrors' = echoErrors + 1
                     /\ UNCHANGED echoed
    /\ UNCHANGED <<bvars, svars, received>>

\* ------------------------------------------- broadcast thread: send_frames

\* The locals of send_frames are dead once the cycle's body is left (each is
\* assigned again before it is next read); the model forgets them there.
EndCycle(to) ==
    /\ pc' = to
    /\ removing' = {}
    /\ frame' = NoFrame
    /\ iter' = [used |-> 0, seen |-> {}]
    /\ channel' = NoChan
    /\ tried' = {}
    /\ failed' = {}

\* line 176-179
Swap ==
    /\ pc = "swap"
    /\ to_be_removed' = SwapPending(to_be_removed).to_be_removed
    /\ removing' = SwapPending(to_be_removed).removing
    /\ pc' = "diff"
    /\ UNCHANGED <<svars, evars, channels, frame_n, frame, iter, channel, chanvars, hist>>

\* line 180
Diff ==
    /\ pc = "diff"
    /\ channels' = Difference(channels, removing)
    /\ pc' = "check"
    /\ UNCHANGED <<svars, evars, to_be_removed, removing, frame_n, frame, iter, channel,
                   chanvars, hist>>

\* lines 181-182
Check ==
    /\ pc = "check"
    /\ sawChannels' = IF channels = {} THEN "no" ELSE "yes"
    /\ IF SkipCycle(channels)
         THEN EndCycle("sleep")
         ELSE /\ pc' = "gen"
              /\ UNCHANGED <<removing, frame, iter, channel, att>>
    /\ UNCHANGED <<svars, evars, channels, to_be_removed, frame_n, chanvars, ticks, firedNow,
                   firedOld, softNow, softOld, addedMid, lastIdx, streak,
                   genCalls>>

\* lines 183-185
Gen ==
    /\ pc = "gen"
    /\ frame' = gen_frame(frame_n)
    /\ genCalls' = genCalls + 1
    /\ pc' = "iter"
    /\ UNCHANGED <<svars, evars, channels, to_be_removed, removing, frame_n, iter, channel,
                   chanvars, ticks, firedNow, firedOld, softNow, softOld,
                   addedMid, lastIdx, streak, sawChannels, att>>

\* line 186: iter(channels)
Iter ==
    /\ pc = "iter"
    /\ iter' = [used |-> Cardinality(channels), seen |-> {}]
    /\ pc' = "for"
    /\ UNCHANGED <<svars, evars, channels, to_be_removed, removing, frame_n, frame, channel,
                   chanvars, hist>>

\* line 186: next(iterator).  RuntimeError("Set changed size during
\* iteration") is not caught anywhere: it ends send_frames and its thread.
ForNext ==
    /\ pc = "for"
    /\ IF SetChanged(iter, channels)
         THEN EndCycle("crashed")
         ELSE IF iter.seen = channels
                THEN EndCycle("sleep")
                ELSE \E c \in channels \ iter.seen :
                        /\ channel' = c
                        /\ iter' = [iter EXCEPT !.seen = @ \cup {c}]
                        /\ pc' = "member"
                        /\ UNCHANGED <<removing, frame, att>>
    /\ UNCHANGED <<svars, evars, channels, to_be_removed, frame_n, chanvars,
                   ticks, firedNow, firedOld, softNow, softOld, addedMid, cyc>>

\* lines 187-188
Member ==
    /\ pc = "member"
    /\ pc' = IF AlreadyPending(channel, to_be_removed) THEN "for" ELSE "send"
    /\ UNCHANGED <<svars, evars, channels, to_be_removed, removing, frame_n, frame, iter,
                   channel, chanvars, hist>>

\* lines 189-192
Send ==
    /\ pc = "send"
    /\ tried' = tried \cup {channel}
    /\ \E outcome \in SendOutcomes(ReadyStateOf(channel)) :
          IF outcome = "ok"
            THEN /\ lastIdx' = [lastIdx EXCEPT ![channel] = frame.index]
                 /\ streak' = IF lastIdx[channel] # -1
                                THEN streak \cup {channel} ELSE streak
                 /\ pc' = "for"
                 /\ UNCHANGED failed
            ELSE /\ pc' = "except"
                 /\ failed' = failed \cup {channel}
                 /\ UNCHANGED <<lastIdx, streak>>
    /\ UNCHANGED <<svars, evars, channels, to_be_removed, removing, frame_n, frame, iter,
                   channel, chanvars, ticks, firedNow, firedOld, softNow,
                   softOld, addedMid, genCalls, sawChannels>>

\* lines 193-195
Except ==
    /\ pc = "except"
    /\ IF PruneOnError(ReadyStateOf(channel))
         THEN /\ to_be_removed' = to_be_removed \cup {channel}
              /\ softNow' = softNow \cup {channel}
         ELSE UNCHANGED <<to_be_removed, softNow>>
    /\ pc' = "for"
    /\ UNCHANGED <<svars, evars, channels, removing, frame_n, frame, iter, channel, chanvars,
                   ticks, firedNow, firedOld, softOld, addedMid, cyc, att>>

\* lines 133-136 and 130-132: the clock advances, sleeps and yields again
Advance ==
    /\ pc = "sleep"
    /\ ticks - TickBase < MaxTicks
    /\ frame_n' = AfterYield(frame_n, genCalls > 0)
    /\ ticks' = ticks + 1
    /\ firedOld' = firedOld \cup firedNow
    /\ firedNow' = {}
    /\ softOld' = softOld \cup softNow
    /\ softNow' = {}
    /\ addedMid' = {}
    /\ lastIdx' = [c \in Chan |->
                      IF c \in channels /\ lastIdx[c] = gen_frame(frame_n).index
                          /\ genCalls > 0
                        THEN lastIdx[c] ELSE -1]
    /\ streak' = {}
    /\ genCalls' = 0
    /\ sawChannels' = ""
    /\ pc' = "swap"
    /\ UNCHANGED <<svars, evars, channels, to_be_removed, removing, frame, iter,
                   channel, chanvars, att>>

\* ------------------------------------------------ main thread: signaling

\* The response of request record q: the exception raised, or "" and the
\* body's id (lines 82-88).
Response(q, err, resp) ==
    [err |-> err, resp |-> resp, parsed |-> q.parsed, given |-> q.given,
     id |-> q.id]

\* RTCPeerConnection.close() on each of objs: the call is counted and the
\* connection is closed.  (close() removes the connection's listeners, and
\* on_constate returns at once for the state closed: the observer of that
\* last state change does nothing and is left out.)
CloseAll(objs) ==
    /\ closeCalls' = [o \in Conn |-> IF o \in objs THEN closeCalls[o] + 1
                                      ELSE closeCalls[o]]
    /\ connectionState' = [o \in Conn |-> IF o \in objs THEN "closed"
                                           ELSE connectionState[o]]

\* lines 55-77 up to the await of setRemoteDescription: the body is parsed,
\* the session found or created, the failure observer installed, the
\* new-connection hook run and the offer description built
offer_begin(r, b) ==
    /\ reqs[r].pc = "idle"
    /\ \A q \in Req : q < r => reqs[q].pc # "idle"
    /\ (ParseOk(b) /\ b.id.form = "null" => created < MaxConn)
    /\ LET e == OfferEntry(b, connections, created, issued)
           q == [pc |-> "setRemote", parsed |-> ParseOk(b),
                 given |-> IF ParseOk(b) THEN b.id ELSE NullId,
                 id |-> e.id, conn |-> e.conn]
       IN  /\ created' = e.created
           /\ issued' = e.issued
           /\ everKeys' = everKeys \cup DOMAIN e.connections
           /\ connectionState' =
                 [o \in Conn |-> IF o > created /\ o <= e.created
                                   THEN "new" ELSE connectionState[o]]
           /\ IF e.err # ""
                THEN /\ reqs' = [reqs EXCEPT ![r] = DoneReq]
                     /\ lastResp' = Response(q, e.err, NullId)
                     /\ connections' = FailedOffer(e.connections, q)
                ELSE /\ reqs' = [reqs EXCEPT ![r] = q]
                     /\ connections' = e.connections
                     /\ UNCHANGED lastResp
    /\ UNCHANGED <<bvars, evars, negotiation, closeCalls, tasks, closers,
                   handlerErrors, shutdown>>

\* line 77: await connection.setRemoteDescription(...)
offer_setRemote(r) ==
    /\ reqs[r].pc = "setRemote"
    /\ \E outcome \in {"ok", "raise"} :
          IF outcome = "ok"
            THEN /\ negotiation' = [negotiation EXCEPT ![reqs[r].conn] = "remote"]
                 /\ reqs' = [reqs EXCEPT ![r].pc = "answer"]
                 /\ UNCHANGED <<lastResp, connections>>
            ELSE /\ reqs' = [reqs EXCEPT ![r] = DoneReq]
                 /\ lastResp' = Response(reqs[r], "NegotiationFailure", NullId)
                 /\ connections' = FailedOffer(connections, reqs[r])
                 /\ UNCHANGED negotiation
    /\ UNCHANGED <<bvars, evars, issued, created, connectionState,
                   closeCalls, tasks, closers, handlerErrors, shutdown, everKeys>>

\* lines 78-88: await connection.createAnswer(), which builds a description
\* and leaves the connection as it is, then await
\* connection.setLocalDescription(ans) and the response with str(id).  Either
\* await may raise.
offer_answer(r) ==
    /\ reqs[r].pc = "answer"
    /\ \E outcome \in {"ok", "raise"} :
          IF outcome = "ok"
            THEN /\ negotiation' = [negotiation EXCEPT ![reqs[r].conn] = "local"]
                 /\ lastResp' = Response(reqs[r], "", IdStr(reqs[r].id))
                 /\ UNCHANGED connections
            ELSE /\ lastResp' = Response(reqs[r], "NegotiationFailure", NullId)
                 /\ connections' = FailedOffer(connections, reqs[r])
                 /\ UNCHANGED negotiation
    /\ reqs' = [reqs EXCEPT ![r] = DoneReq]
    /\ UNCHANGED <<bvars, evars, issued, created, connectionState,
                   closeCalls, tasks, closers, handlerErrors, shutdown, everKeys>>

\* The transport changes a connection's connectionState and emits
\* connectionstatechange; the async observer on_constate is scheduled.  The
\* connection's transports exist, and its state leaves new, only once a
\* description has been applied to it.
ConnectionStateChange(o, st) ==
    /\ connectionState[o] \in {"new", "connected"}
    /\ negotiation[o] # "none"
    /\ st \in {"connected", "failed"}
    /\ st # connectionState[o]
    /\ connectionState' = [connectionState EXCEPT ![o] = st]
    /\ tasks' = [tasks EXCEPT ![o] = @ + 1]
    /\ UNCHANGED <<bvars, evars, connections, issued, created, negotiation, closeCalls,
                   closers, handlerErrors, reqs, lastResp, shutdown, everKeys>>

\* lines 68-72: on_constate up to await connection.close()
on_constate(o) ==
    /\ tasks[o] > 0
    /\ IF connectionState[o] # "failed"
         THEN /\ tasks' = [tasks EXCEPT ![o] = @ - 1]
              /\ UNCHANGED <<connectionState, closeCalls, closers>>
         ELSE /\ closeCalls' = [closeCalls EXCEPT ![o] = @ + 1]
              /\ connectionState' = [connectionState EXCEPT ![o] = "closed"]
              /\ tasks' = tasks
              /\ closers' = [closers EXCEPT ![o] = @ + 1]
    /\ UNCHANGED <<bvars, evars, connections, issued, created, negotiation,
                   handlerErrors, reqs, lastResp, shutdown, everKeys>>

\* line 73: connections.pop(id) once close() has returned; KeyError when the
\* key is gone.  The observer of connection o was created with the id o.
on_constate_pop(o) ==
    /\ closers[o] > 0
    /\ closers' = [closers EXCEPT ![o] = @ - 1]
    /\ IF o \in DOMAIN connections
         THEN /\ connections' = Without(connections, o)
              /\ UNCHANGED handlerErrors
         ELSE /\ handlerErrors' = handlerErrors + 1
              /\ UNCHANGED connections
    /\ UNCHANGED <<bvars, evars, issued, created, connectionState, negotiation,
                   closeCalls, tasks, reqs, lastResp, shutdown, everKeys>>

\* line 93: close() is called on every connection the registry holds when
\* gather is called, and the calls are awaited together: the hook is
\* suspended until they return.  With nothing to gather the await does not
\* suspend and line 94 runs at once.
on_shutdown ==
    /\ shutdown = "idle"
    /\ shutdown' = IF DOMAIN connections = {} THEN "done" ELSE "gathering"
    /\ CloseAll({connections[k] : k \in DOMAIN connections})
    /\ UNCHANGED <<bvars, evars, connections, issued, created, negotiation, tasks,
                   closers, handlerErrors, reqs, lastResp, everKeys>>

\* line 94: connections.clear()
on_shutdown_clear ==
    /\ shutdown = "gathering"
    /\ shutdown' = "done"
    /\ connections' = <<>>
    /\ UNCHANGED <<bvars, evars, issued, created, connectionState, negotiation,
                   closeCalls, tasks, closers, handlerErrors, reqs, lastResp, everKeys>>

\* ------------------------------------------------------------ specification
NextBroadcast ==
    \/ \E c \in Chan, lbl \in Labels : ChannelOpened(c, lbl)
    \/ \E c \in Chan : on_datachannel(c)
    \/ \E c \in Chan : SetClosing(c)
    \/ \E c \in Chan : closing(c)
    \/ \E c \in Chan : SetClosed(c)
    \/ Swap
    \/ Diff
    \/ Check
    \/ Gen
    \/ Iter
    \/ ForNext
    \/ Member
    \/ Send
    \/ Except
    \/ Advance

SpecBroadcast == Init /\ [][NextBroadcast]_vars

SpecWrap == InitWrap /\ [][NextBroadcast]_vars

\* lines 128-136 with no subscriber at any time: every cycle is skipped at
\* lines 181-182 and all that changes from one yield to the next is frame_n
tick ==
    /\ pc = "swap"
    /\ ticks < ClockTicks
    /\ frame_n' = AfterYield(frame_n, FALSE)
    /\ ticks' = ticks + 1
    /\ UNCHANGED <<svars, evars, channels, to_be_removed, loopvars_but_clock, chanvars,
                   firedNow, firedOld, softNow, softOld, addedMid, cyc, att>>

SpecClock == Init /\ [][tick]_vars

NextEcho ==
    \/ \E c \in Chan, lbl \in Labels : ChannelOpened(c, lbl)
    \/ \E c \in Chan : on_datachannel(c)
    \/ \E c \in Chan : SetClosing(c)
    \/ \E c \in Chan : closing(c)
    \/ \E c \in Chan : SetClosed(c)
    \/ \E c \in Chan, m \in Messages : message_received(c, m)
    \/ message

SpecEcho == Init /\ [][NextEcho]_vars

NextSignaling ==
    \/ \E r \in Req, b \in Bodies : offer_begin(r, b)
    \/ \E r \in Req : offer_setRemote(r)
    \/ \E r \in Req : offer_answer(r)
    \/ \E o \in Conn, st \in {"connected", "failed"} : ConnectionStateChange(o, st)
    \/ \E o \in Conn : on_constate(o)
    \/ \E o \in Conn : on_constate_pop(o)
    \/ on_shutdown
    \/ on_shutdown_clear

SpecSignaling == Init /\ [][NextSignaling]_vars

\* ------------------------------------------------------------------ claims

Fired == firedNow \cup firedOld

\* At the difference step: the closing callbacks that ran before this cycle's
\* swap.  The swap left to_be_removed empty and only callbacks insert into it
\* before the difference, so the callbacks that ran since are exactly its
\* members.
FiredBeforeSwap == Fired \ to_be_removed

\* C1: channel churn.  The difference step at the start of a cycle removes
\* from the active set exactly the channels whose closing callback ran before
\* that cycle's swap (and those an earlier cycle pruned after a soft error);
\* every other channel stays, and no channel leaves the active set in any
\* other step.
C1_ChurnDrain ==
    [][ /\ (~(channels \subseteq channels') => pc = "diff" /\ pc' = "check")
        /\ (pc = "diff" /\ pc' = "check"
              => channels' = channels \ (FiredBeforeSwap \cup softOld)) ]_vars

\* Two channels were added, the closing callback ran for one of them, no soft
\* error occurred, and the drain has just removed that one and kept the other.
C1_Witness ==
    /\ pc = "check"
    /\ Cardinality(Registered) = 2
    /\ Cardinality(Fired) = 1
    /\ softNow \cup softOld = {}
    /\ removing = Fired
    /\ channels = Registered \ Fired

\* C2: a channel added after the drain of a cycle and before the end of its
\* delivery loop is not sent the frame of that cycle.
C2_MidCycleAddNotDelivered ==
    [][ pc = "send" /\ pc' \in {"for", "except"} => channel \notin addedMid ]_vars

\* C3: no removal request is lost.  A channel whose closing callback has run
\* and that is still active is in the pending set, or in the set the current
\* cycle has swapped out and is about to subtract; a request of an earlier
\* cycle is applied by the end of the next drain; and once a cycle has
\* subtracted its swapped-out set, that set has no member left to remove.
C3_NoLostRemoval ==
    /\ \A c \in Fired \cap channels :
          c \in to_be_removed \/ (pc = "diff" /\ c \in removing)
    /\ \A c \in firedOld \cap channels : pc \in {"swap", "diff"}
    /\ (MidCycle => removing \cap channels = {})

\* A closing callback ran after the swap of the previous cycle, and the drain
\* of this cycle has removed its channel.
C3_Witness ==
    /\ pc = "check"
    /\ \E c \in firedOld : c \in removing /\ c \notin channels /\ c \notin softOld

\* C4: a channel pruned after a soft error (InvalidStateError with a state
\* other than open) stays in the active set only until the drain of the very
\* next cycle, and no send is attempted on it again, neither later in the
\* cycle of the error nor in a later cycle.
C4_SoftErrorPruned ==
    /\ \A c \in softOld \cap channels : pc \in {"swap", "diff"}
    /\ (pc \in {"member", "send", "except"} => channel \notin softOld)
    /\ (pc = "send" => channel \notin softNow)

\* A channel was pruned by a soft error alone (its closing callback never
\* ran) and the drain of the next cycle has removed it.
C4_Witness ==
    /\ pc = "check"
    /\ \E c \in softOld : c \in removing /\ c \notin channels /\ c \notin Fired

\* C5: the broadcast loop never raises out of a cycle.
C5_LoopNeverRaises == pc # "crashed"

\* C6: a cycle whose emptiness test finds no active channel calls gen_frame
\* zero times and attempts no delivery; a cycle that finds a channel calls
\* gen_frame exactly once.
C6_GenOncePerNonEmptyCycle ==
    /\ genCalls <= 1
    /\ (sawChannels = "no" => genCalls = 0 /\ pc = "sleep")
    /\ (sawChannels = "yes" /\ pc # "gen" => genCalls = 1)
    /\ (pc \in {"iter", "for", "member", "send", "except"} => sawChannels = "yes")

\* The second cycle found the active set empty after removing the channels
\* added during the first, and ended without a gen_frame call.
C6_Witness ==
    /\ pc = "sleep"
    /\ sawChannels = "no"
    /\ genCalls = 0
    /\ ticks > TickBase
    /\ Registered # {}

\* C7 as stated: each frame delivered to a channel carries a larger index
\* than the frame delivered to it in the previous cycle.
C7_StrictlyIncreasing ==
    [][ pc = "send" /\ pc' = "for" /\ lastIdx[channel] # -1
          => lastIdx'[channel] > lastIdx[channel] ]_vars

\* C7 amended: the index of each frame delivered to a channel is the index
\* delivered to it in the previous cycle plus one, modulo 65536.
C7_IncreasingModuloWrap ==
    [][ pc = "send" /\ pc' = "for" /\ lastIdx[channel] # -1
          => lastIdx'[channel] = (lastIdx[channel] + 1) % n_of_unique_frames ]_vars

\* A channel was delivered index 65535 and, in the next cycle, index 0.
C7_Witness == \E c \in streak : lastIdx[c] = 0

\* A request arrives in slot r: lines 55-77 run.
Began(r) == reqs[r].pc = "idle" /\ reqs'[r].pc # "idle"

\* What the request that began in slot r carried and was given: read from its
\* record, or from its response when it failed before its first await.
BeganReq(r) == IF reqs'[r].pc = "done" THEN lastResp' ELSE reqs'[r]

\* C8: an offer without an id registers and returns an id that has never been
\* a registry key before, whatever offers, failures and evictions came first;
\* an offer carrying the id of a registered session returns that same id,
\* leaves the set of registry keys unchanged and creates no new transport
\* session; no two registry keys share a transport session.
C8_FreshOrReused ==
    [][ /\ \A k \in DOMAIN connections' \ DOMAIN connections : k \notin everKeys
        /\ \A k \in DOMAIN connections', j \in DOMAIN connections' :
              connections'[k] = connections'[j] => k = j
        /\ \A r \in Req :
              /\ Began(r) /\ BeganReq(r).parsed /\ BeganReq(r).given = NullId
                   => /\ BeganReq(r).id \notin everKeys
                      /\ DOMAIN connections' = DOMAIN connections \cup {BeganReq(r).id}
                      /\ created' = created + 1
              /\ Began(r) /\ ParseUUID(BeganReq(r).given) \in DOMAIN connections
                   => /\ BeganReq(r).id = ParseUUID(BeganReq(r).given)
                      /\ connections' = connections
                      /\ created' = created
              /\ reqs[r].pc \in {"setRemote", "answer"}
                 /\ reqs'[r] # reqs[r]
                   => /\ connections' = connections
                      /\ created' = created
                      /\ (lastResp'.err = "" /\ reqs'[r].pc = "done"
                            => /\ ParseUUID(lastResp'.resp) = reqs[r].id
                               /\ (reqs[r].given # NullId =>
                                     ParseUUID(lastResp'.resp)
                                        = ParseUUID(reqs[r].given))) ]_vars

\* A session was registered, failed and was evicted, and the last offer,
\* without an id, was answered with the id of another, registered session.
C8_Witness ==
    /\ lastResp.err = ""
    /\ lastResp.parsed
    /\ lastResp.given = NullId
    /\ ParseUUID(lastResp.resp) \in DOMAIN connections
    /\ everKeys \ DOMAIN connections # {}
    /\ shutdown = "idle"

\* C9: an offer carrying an id that is not a key of the registry (never
\* registered, already evicted, or no UUID at all) ends in an error response
\* and leaves the registry and every transport session as they were.
C9_UnknownIdNoChange ==
    [][ \A r \in Req :
           Began(r) /\ BeganReq(r).parsed /\ BeganReq(r).given # NullId
           /\ ParseUUID(BeganReq(r).given) \notin DOMAIN connections
             => /\ reqs'[r].pc = "done"
                /\ lastResp'.err \in {"KeyError", "ValueError"}
                /\ connections' = connections
                /\ created' = created
                /\ connectionState' = connectionState
                /\ negotiation' = negotiation
                /\ closeCalls' = closeCalls ]_vars

\* The last offer carried, in another spelling, the id of a session that had
\* failed and been evicted, and was answered with an error.
C9_Witness ==
    /\ lastResp.err = "KeyError"
    /\ lastResp.given.form = "other"
    /\ ParseUUID(lastResp.given) \in everKeys \ DOMAIN connections
    /\ shutdown = "idle"

\* C10: an offer whose body cannot be parsed into {sdp, type, optional id}
\* fails as a request error and leaves the session registry, every transport
\* session's negotiation state and the channel sets as they were.
C10_UnparsableNoChange ==
    [][ \A r \in Req :
           Began(r) /\ ~BeganReq(r).parsed
             => /\ reqs'[r].pc = "done"
                /\ lastResp'.err = "InvalidPayload"
                /\ connections' = connections
                /\ created' = created
                /\ connectionState' = connectionState
                /\ negotiation' = negotiation
                /\ channels' = channels
                /\ to_be_removed' = to_be_removed ]_vars

\* The last offer had an unparsable body and failed, with a session
\* registered and negotiated.
C10_Witness ==
    /\ lastResp.err = "InvalidPayload"
    /\ ~lastResp.parsed
    /\ \E k \in DOMAIN connections : negotiation[connections[k]] = "local"

\* The connection objects constructed so far; each was registered when it was
\* constructed (lines 63-64).
Tracked == 1 .. created

\* C11: when the shutdown hook completes, every session that was tracked in
\* the registry has had close called on it exactly once, and the registry is
\* empty.
C11_ShutdownClosesOnce ==
    [][ shutdown # "done" /\ shutdown' = "done"
          => /\ DOMAIN connections' = {}
             /\ \A o \in Tracked : closeCalls'[o] = 1 ]_vars

\* C12: once the shutdown hook has started, every offer is rejected: it adds
\* no entry to the registry and neither creates nor renegotiates a transport
\* session.
C12_OffersRejectedAfterShutdown ==
    [][ \A r \in Req :
           shutdown # "idle" /\ Began(r)
             => /\ reqs'[r].pc = "done"
                /\ lastResp'.err # ""
                /\ connections' = connections
                /\ created' = created
                /\ negotiation' = negotiation ]_vars

\* C13 (its safety half): the cleanup of a failed session never raises,
\* whatever offers and shutdown steps run between its close and its eviction.
C13_CleanupNeverRaises == handlerErrors = 0

\* The request of slot r ends in this step with a failed negotiation:
\* as_offer, setRemoteDescription, createAnswer or setLocalDescription raised.
NegotiationFailed(r) ==
    /\ reqs'[r].pc = "done"
    /\ reqs[r].pc # "done"
    /\ lastResp'.parsed
    /\ lastResp'.id # 0
    /\ lastResp'.err \in {"NegotiationFailure", "ValueError"}

\* C14: when an offer without an id fails during negotiation, the caller gets
\* a failed response and the step takes nothing out of the registry and
\* closes nothing: the new session stays registered under its new id unless
\* its failure observer or the shutdown hook evicted it meanwhile.  A further
\* offer without an id creates a further session under an id that was never
\* a key.
C14_FailedOfferStaysRegistered ==
    [][ \A r \in Req :
           /\ NegotiationFailed(r) /\ lastResp'.given = NullId
                => /\ lastResp'.resp = NullId
                   /\ DOMAIN connections \subseteq DOMAIN connections'
                   /\ \A k \in DOMAIN connections : connections'[k] = connections[k]
                   /\ closeCalls' = closeCalls
                   /\ \A o \in Tracked : connectionState'[o] = connectionState[o]
                   /\ (reqs[r].pc = "idle"
                         => /\ lastResp'.id \in DOMAIN connections'
                            /\ lastResp'.id \notin DOMAIN connections)
           /\ Began(r) /\ BeganReq(r).parsed /\ BeganReq(r).given = NullId
                => /\ BeganReq(r).id \notin everKeys
                   /\ BeganReq(r).id \in DOMAIN connections'
                   /\ connections'[BeganReq(r).id] = created + 1
                   /\ created' = created + 1 ]_vars

\* An offer without an id failed in negotiation and its session is still
\* registered; the retry, the last offer, failed too and left a second
\* session registered under another id.
C14_Witness ==
    /\ lastResp.err = "NegotiationFailure"
    /\ lastResp.given = NullId
    /\ created = 2
    /\ Cardinality(DOMAIN connections) = 2
    /\ lastResp.id \in DOMAIN connections
    /\ \A o \in Tracked : negotiation[o] # "local" /\ closeCalls[o] = 0
    /\ \A r \in Req : reqs[r].pc = "done"
    /\ shutdown = "idle"

\* The scheduled runs of message for channel c, oldest first.
PendingFor(c) == SelectSeq(msgTasks, LAMBDA t : t.chan = c)

IsPrefix(a, b) == Len(a) <= Len(b) /\ \A i \in 1 .. Len(a) : a[i] = b[i]

\* C15: for every message received on a channel labelled echo, exactly one
\* message is sent back on that channel, with the same payload and kind and in
\* receive order: what was sent back is a prefix of what was received, and
\* the rest of what was received is waiting to be sent back; nothing is sent
\* on a channel with another label.
C15_EchoEveryMessage ==
    \A c \in Chan :
       IF label[c] = "echo"
         THEN /\ IsPrefix(echoed[c], received[c])
              /\ Len(received[c]) = Len(echoed[c]) + Len(PendingFor(c))
         ELSE echoed[c] = <<>>

\* C16: dispatch of a newly opened inbound channel by its label.  A channel
\* labelled webscope_data is passed to add_channel and enters the active set;
\* a channel labelled echo gets the echo responder only; a channel with
\* another label gets no observer; and a channel not labelled webscope_data
\* is never in the active set or the pending set, is never the loop's
\* channel and is never delivered a frame.
C16_DispatchByLabel ==
    [][ \A c \in Chan :
           /\ c \notin wired /\ c \in wired'
                => /\ label[c] = "webscope_data"
                        => /\ c \in channels'
                           /\ observers'[c] = {"closing", "closedkfjsdk"}
                   /\ label[c] = "echo"
                        => /\ observers'[c] = {"message"}
                           /\ channels' = channels
                   /\ label[c] \notin {"webscope_data", "echo"}
                        => /\ observers'[c] = {}
                           /\ channels' = channels
           /\ label'[c] # "webscope_data"
                => /\ c \notin channels' \cup to_be_removed' \cup removing'
                   /\ channel' # c
                   /\ lastIdx'[c] = -1
           /\ c \notin wired' => observers'[c] = {} /\ c \notin channels' ]_vars

\* A cycle has delivered a frame to a webscope_data channel while a wired
\* channel with another label has no observer and is outside the active set.
C16_Witness ==
    \E c \in Chan, d \in Chan :
       /\ label[c] = "webscope_data" /\ lastIdx[c] # -1 /\ c \in channels
       /\ label[d] = "other" /\ d \in wired /\ observers[d] = {}
       /\ pc = "sleep"

\* C17: the frame index of the clock starts at 0, its successor is
\* next(i) = (i + 1) mod 65536 for every i in 0..65535, it stays in 0..65535,
\* and the sequence of indices repeats with period 65536: the index at tick k
\* is k mod 65536, over two full rounds.
C17_IndexPeriod ==
    /\ frame_n \in 0 .. 65535
    /\ frame_n = ticks % 65536
    /\ next_frame_n(frame_n) = (frame_n + 1) % 65536
    /\ next_frame_n(frame_n) \in 0 .. 65535
    /\ (ticks = 0 => frame_n = 0)

\* The clock has gone once round all 65536 indices and is back at 0.
C17_Witness == ticks = 65536 /\ frame_n = 0

\* C18: a registered channel that the transport reports as closing or as
\* closed, with or without a preceding closing notification, is in the
\* pending-removal set afterwards, until a drain takes it out of the active
\* set.
C18_ClosedIsPending ==
    \A c \in channels :
       "closing" \in observers[c] /\ ReadyStateOf(c) \in {"closing", "closed"}
       /\ readyState[c] # "emitting"
         => \/ c \in to_be_removed
            \/ pc = "diff" /\ c \in removing

InLoop == pc \in {"for", "member", "send", "except"}

\* C19: a soft delivery failure does not abort the cycle.  After the handler
\* of lines 192-195 the loop goes on with the same iterator, frame and active
\* set; when the loop ends, send has been called with that frame on every
\* channel of the active set that is not in the pending-removal set; send is
\* called at most once per channel in a cycle, so a failing channel is not
\* retried; and a failing channel whose observed state is still open is not
\* put into the pending-removal set.
C19_SoftFailureContained ==
    [][ /\ pc = "except" /\ pc' # "except"
           => /\ pc' = "for"
              /\ iter' = iter /\ frame' = frame /\ channels' = channels
              /\ tried' = tried /\ channel \in failed
              /\ (ReadyStateOf(channel) = "open" => to_be_removed' = to_be_removed)
        /\ pc = "for" /\ pc' = "sleep"
           => \A c \in channels : c \in tried \/ c \in to_be_removed
        /\ pc' = "send" => channel' \notin tried'
        /\ InLoop' => /\ failed' \subseteq tried'
                      /\ frame' = gen_frame(frame_n')
                      /\ tried' \subseteq iter'.seen ]_vars

\* A loop over two channels is at its end: the send to one raised while the
\* channel was open, the channel is not pending, and the other channel was
\* delivered the same frame.
C19_Witness ==
    /\ pc = "for"
    /\ iter.seen = channels
    /\ Cardinality(channels) = 2
    /\ tried = channels
    /\ \E c \in failed : ReadyStateOf(c) = "open" /\ c \notin to_be_removed
    /\ \E d \in tried \ failed : lastIdx[d] = frame.index

\* C20: the frame index advances by one on every clock tick, skipped cycles
\* included: in the k-th tick the clock, the frame generated and every frame
\* delivered carry k mod 65536, and a frame delivered in the tick before
\* carries (k - 1) mod 65536.
C20_IndexFollowsTicks ==
    /\ frame_n = ticks % 65536
    /\ (frame # NoFrame => frame.index = ticks % 65536)
    /\ \A c \in Chan :
          lastIdx[c] # -1 =>
             \/ lastIdx[c] = ticks % 65536
             \/ lastIdx[c] = (ticks - 1) % 65536 /\ c \notin tried \ failed

\* After 65535 idle ticks a channel subscribes and its first frame carries
\* index 65535.
C20_Witness ==
    /\ ticks = 65535
    /\ \E c \in Chan : lastIdx[c] = 65535 /\ c \notin streak

====
